---- MODULE Spec2Model ----
(***************************************************************************)
(* Model of qdrant-shard-rebalancer.py: main() fetches the cluster peer    *)
(* list and one collection's shard report, builds the peer -> shards map,  *)
(* and rebalance_shards() plans shard moves on that map and posts them.    *)
(*                                                                         *)
(* A Python dict is a sequence of <<key, value>> pairs in insertion order. *)
(* Spec is a run of main(); SpecPlanner is one call of rebalance_shards()  *)
(* on an arbitrary map (which, unlike the maps main() builds, may hold     *)
(* peers with an empty shard list). rebalance_shards() uses peer ids only  *)
(* as dict keys, so SpecPlanner numbers the peers of its argument in       *)
(* insertion order; under Spec the key order is whatever the shard report  *)
(* produces.                                                               *)
(***************************************************************************)
EXTENDS Integers, Sequences, FiniteSets, TLC

\* ---------------------------------------------------------------- bounds
NumPeers == 3
NumShards == 3
MaxEntries == 4

Peers == 1..NumPeers
Shards == 1..NumShards

\* ------------------------------------------------------- program constants
HttpOk == 200
StatusCodes == {200, 500}

\* ------------------------------------------------------------ dict helpers
Keys(d) == {d[i][1] : i \in DOMAIN d}

IndexOfKey(d, k) == CHOOSE i \in DOMAIN d : d[i][1] = k

\* d[k]
Get(d, k) == d[IndexOfKey(d, k)][2]

\* d.get(k, [])
GetOrEmpty(d, k) == IF k \in Keys(d) THEN Get(d, k) ELSE <<>>

\* d[k] = v for a key already present
Put(d, k, v) == [d EXCEPT ![IndexOfKey(d, k)] = <<k, v>>]

\* d.setdefault(k, []).append(s)
SetDefaultAppend(d, k, s) ==
    IF k \in Keys(d) THEN Put(d, k, Append(Get(d, k), s))
    ELSE Append(d, <<k, <<s>>>>)

RECURSIVE SumLen(_)
\* sum(len(shards) for shards in d.values())
SumLen(d) == IF d = <<>> THEN 0 ELSE Len(d[1][2]) + SumLen(Tail(d))

\* x in l
Contains(l, x) == \E i \in DOMAIN l : l[i] = x

\* l with every occurrence of x dropped
RemoveEvery(l, x) == SelectSeq(l, LAMBDA y : y # x)

\* l.remove(x): drops the first occurrence (x is in l)
RemoveFirst(l, x) ==
    LET i == CHOOSE j \in DOMAIN l : l[j] = x /\ \A h \in 1..(j - 1) : l[h] # x
    IN  [j \in 1..(Len(l) - 1) |-> IF j < i THEN l[j] ELSE l[j + 1]]

\* ------------------------------------------------------------------ state
VARIABLES
    pc,                       \* position in main() / rebalance_shards()
    rebalance,                \* args.rebalance
    dry_run,                  \* args.dry_run
    cluster_peers,            \* peer ids of ip_peer_map (the /cluster peer list)
    peer_id,                  \* result.peer_id of the shard report, 0 when unread
    entries_read,             \* shard entries of the report consumed so far
    peer_shard_map,           \* the working map: dict peer -> list of shard ids
    call_args,                \* <<>> before rebalance_shards is called, then
                              \* <<peer_shard_map as passed to it>>
    average_shards_per_peer,  \* target
    underfilled_peers,
    overfilled_peers,
    oi,                       \* overfilled peers whose loop has been entered
    snapshot,                 \* peer_shard_map[overfilled_peer][:]
    si,                       \* shards of the snapshot whose loop has been entered
    ui,                       \* underfilled peers tried for the current shard
    rebalance_operations,     \* the plan: <<from, to, shard>> triples
    next_op,                  \* index of the next operation to post
    http,                     \* requests issued, in order
    stdout,                   \* lines printed, in order
    candidate_checks          \* evaluations of the move guard (line 58)

vars == <<pc, rebalance, dry_run, cluster_peers, peer_id, entries_read,
          peer_shard_map, call_args, average_shards_per_peer,
          underfilled_peers, overfilled_peers, oi, snapshot, si, ui,
          rebalance_operations, next_op, http, stdout, candidate_checks>>

mainVars == <<rebalance, cluster_peers, peer_id, entries_read>>
loopVars == <<oi, snapshot, si, ui>>
classVars == <<average_shards_per_peer, underfilled_peers, overfilled_peers>>

\* ------------------------------------------------------- rebalance_shards
\* int(sum(all_shard_counts) / len(all_shard_counts)) for a non-empty map
Target(d) == SumLen(d) \div Len(d)

\* a peer one below the target taken for filled
IsUnderfilledByTwo(count, target) == count < target - 1

\* a peer at the target taken for underfilled
IsUnderfilledOrAtTarget(count, target) == count <= target

\* lines 47 and 58: len(shards) < average_shards_per_peer
IsUnderfilled(count, target) == count < target

\* a peer at the target taken for overfilled
IsOverfilledOrAtTarget(count, target) == count >= target

\* lines 48 and 60: len(shards) > average_shards_per_peer
IsOverfilled(count, target) == count > target

RECURSIVE KeysBelow(_, _)
\* line 47: [peer for peer, shards in d.items() if len(shards) < target]
KeysBelow(d, target) ==
    IF d = <<>> THEN <<>>
    ELSE (IF IsUnderfilled(Len(d[1][2]), target) THEN <<d[1][1]>> ELSE <<>>)
         \o KeysBelow(Tail(d), target)

RECURSIVE KeysAbove(_, _)
\* line 48: [peer for peer, shards in d.items() if len(shards) > target]
KeysAbove(d, target) ==
    IF d = <<>> THEN <<>>
    ELSE (IF IsOverfilled(Len(d[1][2]), target) THEN <<d[1][1]>> ELSE <<>>)
         \o KeysAbove(Tail(d), target)

\* the guard without its placement test (line 59)
CanMoveIgnoringPlacement(d, target, over, under, shard) ==
    /\ IsUnderfilled(Len(Get(d, under)), target)
    /\ IsOverfilled(Len(Get(d, over)), target)

\* the guard of lines 58-60
CanMove(d, target, over, under, shard) ==
    /\ IsUnderfilled(Len(Get(d, under)), target)
    /\ ~Contains(Get(d, under), shard)
    /\ IsOverfilled(Len(Get(d, over)), target)

\* the operation recorded with its peers swapped
OperationSwapped(over, under, shard) == <<under, over, shard>>

\* line 63, the recorded operation
Operation(over, under, shard) == <<over, under, shard>>

\* the scan going on with the next underfilled peer (no break)
AfterMoveNoBreak(i, n) == i

\* line 67, underfilled peers counted as tried after a move: break leaves the loop
AfterMove(i, n) == n

\* lines 39-53
Enter ==
    /\ pc = "call"
    /\ call_args' = <<peer_shard_map>>
    /\ IF peer_shard_map = <<>>
       THEN /\ stdout' = Append(stdout, <<"No shards found to rebalance.">>)
            /\ pc' = "done"
            /\ UNCHANGED classVars
       ELSE LET t == Target(peer_shard_map)
                u == KeysBelow(peer_shard_map, t)
                o == KeysAbove(peer_shard_map, t)
            IN  /\ average_shards_per_peer' = t
                /\ underfilled_peers' = u
                /\ overfilled_peers' = o
                /\ stdout' = stdout \o << <<"Underfilled peers:", u>>,
                                          <<"Overfilled peers:", o>> >>
                /\ pc' = "for_overfilled"
    /\ rebalance_operations' = <<>>
    /\ UNCHANGED <<mainVars, dry_run, peer_shard_map, loopVars, next_op, http,
                   candidate_checks>>

\* line 55, next overfilled peer: its shard list is copied (line 56)
NextOverfilled ==
    /\ pc = "for_overfilled"
    /\ oi < Len(overfilled_peers)
    /\ oi' = oi + 1
    /\ snapshot' = Get(peer_shard_map, overfilled_peers[oi + 1])
    /\ si' = 0
    /\ pc' = "for_shard"
    /\ UNCHANGED <<mainVars, dry_run, peer_shard_map, call_args, classVars, ui,
                   rebalance_operations, next_op, http, stdout, candidate_checks>>

\* the outer loop started again while a peer is left above the target
OverfilledDoneRepass ==
    /\ pc = "for_overfilled"
    /\ oi = Len(overfilled_peers)
    /\ IF KeysAbove(peer_shard_map, average_shards_per_peer) # <<>>
       THEN /\ oi' = 0
            /\ pc' = "for_overfilled"
       ELSE /\ oi' = oi
            /\ pc' = "planned"
    /\ UNCHANGED <<mainVars, dry_run, peer_shard_map, call_args, classVars,
                   snapshot, si, ui, rebalance_operations, next_op, http, stdout,
                   candidate_checks>>

\* line 55, list exhausted
OverfilledDone ==
    /\ pc = "for_overfilled"
    /\ oi = Len(overfilled_peers)
    /\ pc' = "planned"
    /\ UNCHANGED <<mainVars, dry_run, peer_shard_map, call_args, classVars,
                   loopVars, rebalance_operations, next_op, http, stdout,
                   candidate_checks>>

\* line 57: the loop over underfilled_peers goes on while peers are left, then
\* control is back at line 56
InnerLoop(tried) == IF tried < Len(underfilled_peers) THEN "for_underfilled" ELSE "for_shard"

\* line 56, next shard of the snapshot
NextShard ==
    /\ pc = "for_shard"
    /\ si < Len(snapshot)
    /\ si' = si + 1
    /\ ui' = 0
    /\ pc' = InnerLoop(0)
    /\ UNCHANGED <<mainVars, dry_run, peer_shard_map, call_args, classVars, oi,
                   snapshot, rebalance_operations, next_op, http, stdout,
                   candidate_checks>>

\* line 56, snapshot exhausted
ShardsDone ==
    /\ pc = "for_shard"
    /\ si = Len(snapshot)
    /\ pc' = "for_overfilled"
    /\ UNCHANGED <<mainVars, dry_run, peer_shard_map, call_args, classVars,
                   loopVars, rebalance_operations, next_op, http, stdout,
                   candidate_checks>>

\* lines 57-67, an underfilled peer that passes the guard
MoveShard ==
    /\ pc = "for_underfilled"
    /\ ui < Len(underfilled_peers)
    /\ LET over == overfilled_peers[oi]
           under == underfilled_peers[ui + 1]
           shard == snapshot[si]
           appended == Put(peer_shard_map, under,
                           Append(Get(peer_shard_map, under), shard))
       IN  /\ CanMove(peer_shard_map, average_shards_per_peer, over, under, shard)
           /\ stdout' = Append(stdout, <<"Moving shard", shard, over, under>>)
           /\ rebalance_operations' =
                  Append(rebalance_operations, Operation(over, under, shard))
           /\ IF Contains(Get(appended, over), shard)
              THEN /\ peer_shard_map' =
                          Put(appended, over, RemoveFirst(Get(appended, over), shard))
                   /\ ui' = AfterMove(ui + 1, Len(underfilled_peers))
                   /\ pc' = InnerLoop(ui')
              ELSE \* list.remove raises ValueError
                   /\ peer_shard_map' = appended
                   /\ ui' = ui + 1
                   /\ pc' = "raised"
    /\ candidate_checks' = candidate_checks + 1
    /\ UNCHANGED <<mainVars, dry_run, call_args, classVars, oi, snapshot, si,
                   next_op, http>>

\* lines 57-60, an underfilled peer that fails the guard
SkipUnderfilled ==
    /\ pc = "for_underfilled"
    /\ ui < Len(underfilled_peers)
    /\ ~CanMove(peer_shard_map, average_shards_per_peer, overfilled_peers[oi],
                underfilled_peers[ui + 1], snapshot[si])
    /\ ui' = ui + 1
    /\ pc' = InnerLoop(ui')
    /\ candidate_checks' = candidate_checks + 1
    /\ UNCHANGED <<mainVars, dry_run, peer_shard_map, call_args, classVars,
                   oi, snapshot, si, rebalance_operations, next_op, http, stdout>>

\* lines 69-75 without the dry-run return
CheckPlanIgnoringDryRun ==
    /\ pc = "planned"
    /\ IF rebalance_operations = <<>>
       THEN /\ stdout' = Append(stdout, <<"No rebalancing needed.">>)
            /\ pc' = "done"
       ELSE /\ stdout' = stdout
            /\ pc' = "execute"
    /\ next_op' = 1
    /\ UNCHANGED <<mainVars, dry_run, peer_shard_map, call_args, classVars,
                   loopVars, rebalance_operations, http, candidate_checks>>

\* lines 69-75
CheckPlan ==
    /\ pc = "planned"
    /\ IF rebalance_operations = <<>>
       THEN /\ stdout' = Append(stdout, <<"No rebalancing needed.">>)
            /\ pc' = "done"
       ELSE IF dry_run
       THEN /\ stdout' = Append(stdout, <<"Dry run mode. No changes sent to the server.">>)
            /\ pc' = "done"
       ELSE /\ stdout' = stdout
            /\ pc' = "execute"
    /\ next_op' = 1
    /\ UNCHANGED <<mainVars, dry_run, peer_shard_map, call_args, classVars,
                   loopVars, rebalance_operations, http, candidate_checks>>

\* the payload of lines 79-85
Payload(op) == [shard_id |-> op[3], from_peer_id |-> op[1], to_peer_id |-> op[2]]

\* lines 77-91, one move request answered with a status code
PostAnswered ==
    /\ pc = "execute"
    /\ next_op <= Len(rebalance_operations)
    /\ LET op == rebalance_operations[next_op]
       IN  /\ http' = Append(http, <<"POST", Payload(op)>>)
           /\ \E status \in StatusCodes :
                stdout' = stdout \o
                    << <<"POST", Payload(op)>>,
                       IF status = HttpOk
                       THEN <<"Successfully moved shard", op[3]>>
                       ELSE <<"Failed to move shard", op[3], status>> >>
    /\ next_op' = next_op + 1
    /\ UNCHANGED <<pc, mainVars, dry_run, peer_shard_map, call_args, classVars,
                   loopVars, rebalance_operations, candidate_checks>>

\* line 87, requests.post raises: nothing in rebalance_shards or main catches it
PostRaises ==
    /\ pc = "execute"
    /\ next_op <= Len(rebalance_operations)
    /\ LET op == rebalance_operations[next_op]
       IN  /\ http' = Append(http, <<"POST", Payload(op)>>)
           /\ stdout' = Append(stdout, <<"POST", Payload(op)>>)
    /\ pc' = "raised"
    /\ UNCHANGED <<mainVars, dry_run, peer_shard_map, call_args, classVars,
                   loopVars, rebalance_operations, next_op, candidate_checks>>

\* line 77, plan exhausted
ExecuteDone ==
    /\ pc = "execute"
    /\ next_op > Len(rebalance_operations)
    /\ pc' = "done"
    /\ UNCHANGED <<mainVars, dry_run, peer_shard_map, call_args, classVars,
                   loopVars, rebalance_operations, next_op, http, stdout,
                   candidate_checks>>

NextPlanner ==
    \/ Enter
    \/ NextOverfilled
    \/ OverfilledDone
    \/ NextShard
    \/ ShardsDone
    \/ MoveShard
    \/ SkipUnderfilled
    \/ CheckPlan
    \/ PostAnswered
    \/ PostRaises
    \/ ExecuteDone

\* ------------------------------------------- a call of rebalance_shards
RECURSIVE SumTo(_, _)
\* f[1] + ... + f[n]
SumTo(f, n) == IF n = 0 THEN 0 ELSE f[n] + SumTo(f, n - 1)

\* the ways to give n peers k shard entries in all: the lengths of their lists
ListLengths(n, k) == {lens \in [1..n -> 0..k] : SumTo(lens, n) = k}

\* the map with keys 1..n (numbered in insertion order) whose lists have the
\* lengths lens and, laid end to end, read `flat`
MapOf(n, lens, flat) ==
    [p \in 1..n |-> <<p, SubSeq(flat, SumTo(lens, p - 1) + 1, SumTo(lens, p))>>]

InitPlanner ==
    /\ pc = "call"
    /\ rebalance = TRUE
    /\ dry_run \in BOOLEAN
    /\ cluster_peers = {}
    /\ peer_id = 0
    /\ entries_read = 0
    \* every map of at most NumPeers peers and MaxEntries shard entries; a list
    \* may be empty and may repeat a shard id
    /\ \E n \in 0..NumPeers, k \in 0..MaxEntries :
         \E lens \in ListLengths(n, k), flat \in [1..k -> Shards] :
            peer_shard_map = MapOf(n, lens, flat)
    /\ call_args = <<>>
    /\ average_shards_per_peer = 0
    /\ underfilled_peers = <<>>
    /\ overfilled_peers = <<>>
    /\ oi = 0
    /\ snapshot = <<>>
    /\ si = 0
    /\ ui = 0
    /\ rebalance_operations = <<>>
    /\ next_op = 0
    /\ http = <<>>
    /\ stdout = <<>>
    /\ candidate_checks = 0

SpecPlanner == InitPlanner /\ [][NextPlanner]_vars

\* the same call, with the interpreter taking a step whenever one is enabled
SpecPlannerFair == SpecPlanner /\ WF_vars(NextPlanner)

\* ------------------------------------------------------------------ main
\* The two responses are read-only inputs. The peer list is drawn when it is
\* fetched; each element of local_shards and remote_shards is drawn at the loop
\* iteration of parse_shards that reads it, at most MaxEntries elements in all.

\* lines 105-106 and 112, the peer list is fetched (parse_cluster_peers keeps
\* one entry per listed peer; peers are assumed to advertise distinct addresses)
FetchCluster ==
    /\ pc = "main"
    /\ http' = Append(http, <<"GET", "/cluster">>)
    /\ \E listed \in SUBSET Peers : cluster_peers' = listed
    /\ pc' = "fetch_collections"
    /\ UNCHANGED <<rebalance, dry_run, peer_id, entries_read, peer_shard_map,
                   call_args, classVars, loopVars, rebalance_operations, next_op,
                   stdout, candidate_checks>>

\* lines 106 and 108-110, the first read raises a RequestException
FetchClusterFails ==
    /\ pc = "main"
    /\ http' = Append(http, <<"GET", "/cluster">>)
    /\ stdout' = Append(stdout, <<"Error fetching data from API">>)
    /\ pc' = "done"
    /\ UNCHANGED <<mainVars, dry_run, peer_shard_map, call_args, classVars,
                   loopVars, rebalance_operations, next_op, candidate_checks>>

\* line 107, the shard report is fetched; lines 20-24
FetchCollections ==
    /\ pc = "fetch_collections"
    /\ http' = Append(http, <<"GET", "/collections/{collection}/cluster">>)
    /\ \E responder \in Peers : peer_id' = responder
    /\ peer_shard_map' = <<>>
    /\ pc' = "parse_local"
    /\ UNCHANGED <<rebalance, dry_run, cluster_peers, entries_read, call_args,
                   classVars, loopVars, rebalance_operations, next_op, stdout,
                   candidate_checks>>

\* the failed second read reported but taken for an empty report, the run going on
FetchCollectionsFailsGoesOn ==
    /\ pc = "fetch_collections"
    /\ http' = Append(http, <<"GET", "/collections/{collection}/cluster">>)
    /\ stdout' = Append(stdout, <<"Error fetching data from API">>)
    /\ peer_shard_map' = <<>>
    /\ entries_read' = MaxEntries
    /\ pc' = "parse_remote"
    /\ UNCHANGED <<rebalance, dry_run, cluster_peers, peer_id, call_args, classVars,
                   loopVars, rebalance_operations, next_op, candidate_checks>>

\* lines 107-110, the second read raises a RequestException
FetchCollectionsFails ==
    /\ pc = "fetch_collections"
    /\ http' = Append(http, <<"GET", "/collections/{collection}/cluster">>)
    /\ stdout' = Append(stdout, <<"Error fetching data from API">>)
    /\ pc' = "done"
    /\ UNCHANGED <<mainVars, dry_run, peer_shard_map, call_args, classVars,
                   loopVars, rebalance_operations, next_op, candidate_checks>>

\* lines 26-29, one local shard
ParseLocalShard ==
    /\ pc = "parse_local"
    /\ entries_read < MaxEntries
    /\ \E shard_id \in Shards :
         peer_shard_map' = SetDefaultAppend(peer_shard_map, peer_id, shard_id)
    /\ entries_read' = entries_read + 1
    /\ UNCHANGED <<pc, rebalance, dry_run, cluster_peers, peer_id, call_args,
                   classVars, loopVars, rebalance_operations, next_op, http, stdout,
                   candidate_checks>>

\* line 26, local_shards exhausted; result.peer_id is not read again
LocalShardsDone ==
    /\ pc = "parse_local"
    /\ peer_id' = 0
    /\ pc' = "parse_remote"
    /\ UNCHANGED <<rebalance, dry_run, cluster_peers, entries_read, peer_shard_map,
                   call_args, classVars, loopVars, rebalance_operations, next_op,
                   http, stdout, candidate_checks>>

\* lines 31-34, one remote shard
ParseRemoteShard ==
    /\ pc = "parse_remote"
    /\ entries_read < MaxEntries
    /\ \E remote_peer \in Peers, shard_id \in Shards :
         peer_shard_map' = SetDefaultAppend(peer_shard_map, remote_peer, shard_id)
    /\ entries_read' = entries_read + 1
    /\ UNCHANGED <<pc, rebalance, dry_run, cluster_peers, peer_id, call_args,
                   classVars, loopVars, rebalance_operations, next_op, http, stdout,
                   candidate_checks>>

\* the ip_shard_map of lines 115-118, by peer id
IpShardMap(listed, d) == [p \in listed |-> GetOrEmpty(d, p)]

\* lines 120-127 with the planner called whatever the flag
DisplayIgnoringFlag ==
    /\ pc = "parse_remote"
    /\ entries_read' = 0
    /\ stdout' = stdout \o
          << <<"Shard distribution by IP:", IpShardMap(cluster_peers, peer_shard_map)>>,
             <<"--- Starting Rebalancing ---">> >>
    /\ pc' = "call"
    /\ UNCHANGED <<rebalance, dry_run, cluster_peers, peer_id, peer_shard_map,
                   call_args, classVars, loopVars, rebalance_operations, next_op,
                   http, candidate_checks>>

\* line 31, remote_shards exhausted; lines 36 and 115-127
Display ==
    /\ pc = "parse_remote"
    /\ entries_read' = 0
    /\ IF rebalance
       THEN /\ stdout' = stdout \o
                  << <<"Shard distribution by IP:", IpShardMap(cluster_peers, peer_shard_map)>>,
                     <<"--- Starting Rebalancing ---">> >>
            /\ pc' = "call"
       ELSE /\ stdout' = Append(stdout,
                  <<"Shard distribution by IP:", IpShardMap(cluster_peers, peer_shard_map)>>)
            /\ pc' = "done"
    /\ UNCHANGED <<rebalance, dry_run, cluster_peers, peer_id, peer_shard_map,
                   call_args, classVars, loopVars, rebalance_operations, next_op,
                   http, candidate_checks>>

Init ==
    /\ pc = "main"
    /\ rebalance \in BOOLEAN
    /\ dry_run \in BOOLEAN
    /\ cluster_peers = {}
    /\ peer_id = 0
    /\ entries_read = 0
    /\ peer_shard_map = <<>>
    /\ call_args = <<>>
    /\ average_shards_per_peer = 0
    /\ underfilled_peers = <<>>
    /\ overfilled_peers = <<>>
    /\ oi = 0
    /\ snapshot = <<>>
    /\ si = 0
    /\ ui = 0
    /\ rebalance_operations = <<>>
    /\ next_op = 0
    /\ http = <<>>
    /\ stdout = <<>>
    /\ candidate_checks = 0

Next ==
    \/ FetchCluster
    \/ FetchClusterFails
    \/ FetchCollections
    \/ FetchCollectionsFails
    \/ ParseLocalShard
    \/ LocalShardsDone
    \/ ParseRemoteShard
    \/ Display
    \/ Enter
    \/ NextOverfilled
    \/ OverfilledDone
    \/ NextShard
    \/ ShardsDone
    \/ MoveShard
    \/ SkipUnderfilled
    \/ CheckPlan
    \/ PostAnswered
    \/ PostRaises
    \/ ExecuteDone

Spec == Init /\ [][Next]_vars

\* ----------------------------------------------------- properties: helpers
\* the elements of a sequence
Range(s) == {s[i] : i \in DOMAIN s}

\* rebalance_shards has been called
Called == call_args # <<>>

\* the map rebalance_shards was called with
InitialMap == call_args[1]

\* the nested loops of lines 55-67 are running or have just finished
Planning == pc \in {"for_overfilled", "for_shard", "for_underfilled", "planned"}

NoDuplicate(l) == \A i, j \in DOMAIN l : i # j => l[i] # l[j]

\* no peer holds the same shard id twice
NoDuplicateMap(d) == \A i \in DOMAIN d : NoDuplicate(d[i][2])

\* floor(totalShards / peerCount) of a non-empty map, from its defining inequality
FloorShare(d) ==
    LET total == SumLen(d)
    IN  CHOOSE q \in 0..total : q * Len(d) <= total /\ total < (q + 1) * Len(d)

\* the shard list of peer p in map d
ShardsOf(d, p) == d[CHOOSE i \in DOMAIN d : d[i][1] = p][2]

\* the POST payloads among the requests issued
Posts == SelectSeq(http, LAMBDA r : r[1] = "POST")

\* a move has just been appended to the plan
Emitted == Len(rebalance_operations') = Len(rebalance_operations) + 1

LastMove == rebalance_operations'[Len(rebalance_operations')]

\* ------------------------------------------------------------------- C1
\* C1: when a move (from, to, s) is emitted, s is not in the simulated list of
\* peer `to`; and if the input holds no shard id twice on a peer, neither does
\* the simulated map after any move.
C1_PlacementConstraint ==
    [][ /\ Emitted => ~Contains(ShardsOf(peer_shard_map, LastMove[2]), LastMove[3])
        /\ (Called' /\ Planning') =>
             (NoDuplicateMap(InitialMap') => NoDuplicateMap(peer_shard_map')) ]_vars

\* a move was emitted although a shard of its source was already on its destination
C1_Witness ==
    /\ pc = "planned"
    /\ NoDuplicateMap(InitialMap)
    /\ \E i \in DOMAIN rebalance_operations :
         LET m == rebalance_operations[i]
         IN  \E j \in DOMAIN ShardsOf(InitialMap, m[1]) :
               Contains(ShardsOf(InitialMap, m[2]), ShardsOf(InitialMap, m[1])[j])

\* ------------------------------------------------------------------- C2
\* C2: a move is emitted only while its source holds more than target shards and
\* its destination fewer, target being floor(totalShards / peerCount); after any
\* prefix of the plan no source holds fewer than target and no destination more.
C2_MoveGuard ==
    [][ (Called' /\ Planning' /\ rebalance_operations' # <<>>) =>
          LET target == FloorShare(InitialMap')
          IN  /\ Emitted =>
                   /\ Len(ShardsOf(peer_shard_map, LastMove[1])) > target
                   /\ Len(ShardsOf(peer_shard_map, LastMove[2])) < target
              /\ \A i \in DOMAIN rebalance_operations' :
                   /\ Len(ShardsOf(peer_shard_map', rebalance_operations'[i][1])) >= target
                   /\ Len(ShardsOf(peer_shard_map', rebalance_operations'[i][2])) <= target ]_vars

\* planning ended with a source and a destination both exactly at target
C2_Witness ==
    /\ pc = "planned"
    /\ \E i \in DOMAIN rebalance_operations :
         /\ Len(ShardsOf(peer_shard_map, rebalance_operations[i][1])) = average_shards_per_peer
         /\ Len(ShardsOf(peer_shard_map, rebalance_operations[i][2])) = average_shards_per_peer

\* ------------------------------------------------------------------- C3
\* C3: for a non-empty input with no shard id twice on a peer, when planning
\* finishes no peer holds fewer than target shards, and every peer that started
\* below target holds exactly target.
C3_NoPeerBelowTarget ==
    (Called /\ pc = "planned" /\ InitialMap # <<>> /\ NoDuplicateMap(InitialMap)) =>
        LET target == FloorShare(InitialMap)
        IN  \A i \in DOMAIN peer_shard_map :
                /\ Len(peer_shard_map[i][2]) >= target
                /\ Len(InitialMap[i][2]) < target => Len(peer_shard_map[i][2]) = target

\* planning finished after a shard-id collision made the guard refuse a peer
\* that was still below target
C3_Witness ==
    /\ pc = "planned"
    /\ NoDuplicateMap(InitialMap)
    /\ \E i, j \in DOMAIN InitialMap :
         /\ Len(InitialMap[i][2]) > FloorShare(InitialMap)
         /\ Len(InitialMap[j][2]) < FloorShare(InitialMap)
         /\ Contains(InitialMap[j][2], InitialMap[i][2][1])
    /\ Len(rebalance_operations) >= 1
    /\ candidate_checks > Len(rebalance_operations)

\* ------------------------------------------------------------------- C4
\* an empty map, no shards at all, or every peer at target or target + 1
AlreadyBalanced(d) ==
    \/ d = <<>>
    \/ SumLen(d) = 0
    \/ LET target == FloorShare(d)
       IN  \A i \in DOMAIN d : Len(d[i][2]) \in {target, target + 1}

\* C4: for an input that is empty, holds no shard, or has every peer at target
\* or target + 1, the plan is empty, the working map stays as passed and no
\* move request is issued.
C4_BalancedIsNoOp ==
    Called =>
        \/ /\ rebalance_operations = <<>>
           /\ peer_shard_map = InitialMap
           /\ Posts = <<>>
           /\ pc # "execute"
        \/ ~AlreadyBalanced(InitialMap)

\* a finished real run on a map with peers at target and at target + 1
C4_Witness ==
    /\ pc = "done"
    /\ ~dry_run
    /\ Called
    /\ InitialMap # <<>>
    /\ AlreadyBalanced(InitialMap)
    /\ \E i, j \in DOMAIN InitialMap :
         /\ Len(InitialMap[i][2]) = FloorShare(InitialMap) + 1
         /\ Len(InitialMap[j][2]) = FloorShare(InitialMap)
         /\ FloorShare(InitialMap) > 0

\* ------------------------------------------------------------------- C5
\* Example 2 of the specification, with A = 1 and B = 2: {1: [A, B], 2: [A]}
Example2 == << <<1, <<1, 2>>>>, <<2, <<1>>>> >>

\* C5 as stated: on {1: [A, B], 2: [A]} the planner emits the single move of B
\* from peer 1 to peer 2 and leaves {1: [A], 2: [A, B]}.
C5_Original ==
    (Called /\ pc = "planned" /\ InitialMap = Example2) =>
        /\ rebalance_operations = << <<1, 2, 2>> >>
        /\ peer_shard_map = << <<1, <<1>>>>, <<2, <<1, 2>>>> >>

\* C5 as amended: on {1: [A, B], 2: [A]} the target is floor(3/2) = 1, peer 2
\* is at target and not underfilled, so the planner emits no move, of A or of
\* B, and the map stays {1: [A, B], 2: [A]}.
C5_Example2NoMove ==
    (Called /\ pc \in {"planned", "execute", "done", "raised"} /\ InitialMap = Example2) =>
        /\ average_shards_per_peer = 1
        /\ underfilled_peers = <<>>
        /\ rebalance_operations = <<>>
        /\ peer_shard_map = Example2
        /\ Posts = <<>>

\* planning has finished on Example 2
C5_Witness == Called /\ pc = "planned" /\ InitialMap = Example2

\* ------------------------------------------------------------------- C6
RECURSIVE DropFirst(_, _)
\* l without its first x, for x in l
DropFirst(l, x) == IF l[1] = x THEN Tail(l) ELSE <<l[1]>> \o DropFirst(Tail(l), x)

\* move m can be applied to map d: both peers are keys and `from` holds the shard
Applicable(d, m) ==
    /\ \E i \in DOMAIN d : d[i][1] = m[1]
    /\ \E i \in DOMAIN d : d[i][1] = m[2]
    /\ \E j \in DOMAIN ShardsOf(d, m[1]) : ShardsOf(d, m[1])[j] = m[3]

\* d after move m: the shard leaves `from` and is appended to `to`
ApplyMove(d, m) ==
    [i \in DOMAIN d |->
        IF d[i][1] = m[1] /\ d[i][1] = m[2]
            THEN <<d[i][1], Append(DropFirst(d[i][2], m[3]), m[3])>>
        ELSE IF d[i][1] = m[1] THEN <<d[i][1], DropFirst(d[i][2], m[3])>>
        ELSE IF d[i][1] = m[2] THEN <<d[i][1], Append(d[i][2], m[3])>>
        ELSE d[i]]

RECURSIVE Replayable(_, _)
\* every move of plan can be applied in turn, starting from d
Replayable(d, plan) ==
    plan = <<>> \/ (Applicable(d, plan[1]) /\ Replayable(ApplyMove(d, plan[1]), Tail(plan)))

RECURSIVE Replay(_, _)
\* d after the moves of plan, in order
Replay(d, plan) == IF plan = <<>> THEN d ELSE Replay(ApplyMove(d, plan[1]), Tail(plan))

\* C6: the moves of the plan so far can be applied in order to the map the
\* planner was called with, and doing so yields the planner's simulated map
\* exactly, peer by peer and in list order.
C6_ReplayEquivalence ==
    Called =>
        /\ Replayable(InitialMap, rebalance_operations)
        /\ Replay(InitialMap, rebalance_operations) = peer_shard_map

\* planning finished with at least two moves, on a map with a repeated shard id
C6_Witness ==
    /\ pc = "planned"
    /\ Len(rebalance_operations) >= 2
    /\ ~NoDuplicateMap(InitialMap)

\* ------------------------------------------------------------------- C7
\* C7: for an input with no shard id twice on a peer, no two moves of the plan
\* share (fromPeer, shardID) and no peer is the source of one move and the
\* destination of another.
C7_MovedAtMostOnce ==
    (Called /\ NoDuplicateMap(InitialMap)) =>
        /\ \A i, j \in DOMAIN rebalance_operations :
             i # j => <<rebalance_operations[i][1], rebalance_operations[i][3]>>
                        # <<rebalance_operations[j][1], rebalance_operations[j][3]>>
        /\ \A i, j \in DOMAIN rebalance_operations :
             rebalance_operations[i][1] # rebalance_operations[j][2]

\* planning finished with two moves from one source to two destinations
C7_Witness ==
    /\ pc = "planned"
    /\ NoDuplicateMap(InitialMap)
    /\ \E i, j \in DOMAIN rebalance_operations :
         /\ i < j
         /\ rebalance_operations[i][1] = rebalance_operations[j][1]
         /\ rebalance_operations[i][2] # rebalance_operations[j][2]

\* ------------------------------------------------------------------- C8
\* peers of the cluster peer list that the shard report did not mention
AbsentPeers == cluster_peers \ Keys(InitialMap)

\* C8 as stated: in a run of main, a listed peer absent from the shard report
\* counts as a peer with zero shards: target is the floor share over the
\* reported and the absent peers together, and the absent peer is classified
\* underfilled whenever that target is positive.
C8_AbsentPeerCountsAsEmpty ==
    (Called /\ Planning /\ AbsentPeers # {}) =>
        LET peerCount == Cardinality(Keys(InitialMap) \cup cluster_peers)
            target == CHOOSE q \in 0..SumLen(InitialMap) :
                        /\ q * peerCount <= SumLen(InitialMap)
                        /\ SumLen(InitialMap) < (q + 1) * peerCount
        IN  /\ average_shards_per_peer = target
            /\ target > 0 => \A p \in AbsentPeers : p \in Range(underfilled_peers)

\* ------------------------------------------------------------------- C9
\* the payload the executor is to send for a planned move
MoveRequest(m) == [shard_id |-> m[3], from_peer_id |-> m[1], to_peer_id |-> m[2]]

\* C9 as stated: when a non-dry-run call with a plan of n moves has ended,
\* whatever the outcome of each request (200, another status, a transport
\* failure), exactly n move requests were issued, one per move in plan order.
C9_EveryMoveAttempted ==
    (Called /\ ~dry_run /\ pc \in {"done", "raised"}) =>
        /\ Len(Posts) = Len(rebalance_operations)
        /\ \A i \in DOMAIN Posts : Posts[i][2] = MoveRequest(rebalance_operations[i])

\* ------------------------------------------------------------------ C10
\* the moves reported on standard output (line 62), as plan triples
ReportedMoves ==
    LET lines == SelectSeq(stdout, LAMBDA l : l[1] = "Moving shard")
    IN  [i \in DOMAIN lines |-> <<lines[i][3], lines[i][4], lines[i][2]>>]

\* C10: with dry-run enabled no POST request is ever issued, and when the call
\* has returned the moves reported to the user are the plan, in plan order.
C10_DryRunIssuesNoWrites ==
    (Called /\ dry_run) =>
        /\ Posts = <<>>
        /\ pc # "execute"
        /\ pc = "done" => ReportedMoves = rebalance_operations

\* a dry run has returned with a plan of at least two moves
C10_Witness ==
    /\ Called
    /\ dry_run
    /\ pc = "done"
    /\ Len(rebalance_operations) >= 2

\* ------------------------------------------------------------------ C11
\* a read has failed: the error of line 109 has been printed
ReadFailed == \E i \in DOMAIN stdout : stdout[i][1] = "Error fetching data from API"

\* the shard distribution of lines 120-123 has been printed
TopologyReported == \E i \in DOMAIN stdout : stdout[i][1] = "Shard distribution by IP:"

\* C11: in a run of main, planning and move requests come only after the two
\* topology reads, which are the first two requests; and once a read has failed
\* the run has ended with no topology reported, no plan computed and no move
\* request issued.
C11_ReadFailuresAreFatal ==
    /\ (Called \/ TopologyReported \/ Posts # <<>> \/ rebalance_operations # <<>>) =>
          /\ Len(http) >= 2
          /\ http[1] = <<"GET", "/cluster">>
          /\ http[2] = <<"GET", "/collections/{collection}/cluster">>
          /\ \A i \in DOMAIN http : i > 2 => http[i][1] = "POST"
    /\ ReadFailed =>
          /\ pc = "done"
          /\ ~TopologyReported
          /\ ~Called
          /\ rebalance_operations = <<>>
          /\ Posts = <<>>
          /\ \A i \in DOMAIN http : http[i][1] = "GET"

\* a run asked to rebalance has ended on a failure of its second read
C11_Witness ==
    /\ ReadFailed
    /\ rebalance
    /\ ~dry_run
    /\ Len(http) = 2
    /\ pc = "done"

\* ------------------------------------------------------------------ C12
\* C12: a peer whose shard count in the map passed to the planner equals target
\* is neither source nor destination of any planned move, and its simulated
\* shard list stays as passed.
C12_PeersAtTargetUntouched ==
    (Called /\ InitialMap # <<>>) =>
        LET target == FloorShare(InitialMap)
        IN  \A i \in DOMAIN InitialMap :
              Len(InitialMap[i][2]) = target =>
                 /\ peer_shard_map[i] = InitialMap[i]
                 /\ \A j \in DOMAIN rebalance_operations :
                      /\ rebalance_operations[j][1] # InitialMap[i][1]
                      /\ rebalance_operations[j][2] # InitialMap[i][1]

\* planning finished with a move, next to a peer that started at a positive target
C12_Witness ==
    /\ pc = "planned"
    /\ rebalance_operations # <<>>
    /\ \E i \in DOMAIN InitialMap :
         /\ Len(InitialMap[i][2]) = FloorShare(InitialMap)
         /\ Len(InitialMap[i][2]) > 0

\* ------------------------------------------------------------------ C13
RECURSIVE TotalDeficit(_, _)
\* sum over the peers of d of max(0, target - count)
TotalDeficit(d, target) ==
    IF d = <<>> THEN 0
    ELSE (IF Len(Head(d)[2]) < target THEN target - Len(Head(d)[2]) ELSE 0)
         + TotalDeficit(Tail(d), target)

\* {1: [A, B, C], 2: [], 3: []}
Example1 == << <<1, <<1, 2, 3>>>>, <<2, <<>>>>, <<3, <<>>>> >>

\* C13: for a non-empty input in which no peer holds a shard id twice, the
\* finished plan has as many moves as the sum over the peers of
\* max(0, target - initialCount); on {1: [A, B, C], 2: [], 3: []} it has two
\* moves, 1->2 then 1->3, and peer 1 keeps one shard.
C13_PlanSizeIsTotalDeficit ==
    (Called /\ pc = "planned" /\ InitialMap # <<>> /\ NoDuplicateMap(InitialMap)) =>
        /\ Len(rebalance_operations) = TotalDeficit(InitialMap, FloorShare(InitialMap))
        /\ InitialMap = Example1 =>
              /\ Len(rebalance_operations) = 2
              /\ rebalance_operations[1][1] = 1 /\ rebalance_operations[1][2] = 2
              /\ rebalance_operations[2][1] = 1 /\ rebalance_operations[2][2] = 3
              /\ Len(ShardsOf(peer_shard_map, 1)) = 1

\* planning of {1: [A, B, C], 2: [], 3: []} has finished
C13_Witness ==
    /\ Called /\ pc = "planned" /\ InitialMap = Example1
    /\ Len(rebalance_operations) = 2

\* ------------------------------------------------------------------ C14
RECURSIVE AllShards(_)
\* the shard lists of d, one after the other
AllShards(d) == IF d = <<>> THEN <<>> ELSE Head(d)[2] \o AllShards(Tail(d))

\* how often shard s is assigned in d
Occurrences(d, s) ==
    LET all == AllShards(d) IN Cardinality({i \in DOMAIN all : all[i] = s})

RECURSIVE DropOne(_, _)
\* l without its first element equal to x
DropOne(l, x) ==
    IF l = <<>> THEN <<>>
    ELSE IF Head(l) = x THEN Tail(l)
    ELSE <<Head(l)>> \o DropOne(Tail(l), x)

\* C14: after every emitted move the working map has the peers of the input,
\* as many shard assignments and the same multiset of shard ids; the move takes
\* one occurrence of s from the source list, appends s to the destination list
\* and leaves every other list as it was.
C14_PlanningConserves ==
    [][ Emitted =>
          LET from == LastMove[1]
              to == LastMove[2]
              s == LastMove[3]
          IN  /\ Keys(peer_shard_map') = Keys(InitialMap')
              /\ SumLen(peer_shard_map') = SumLen(InitialMap')
              /\ \A x \in Shards :
                   Occurrences(peer_shard_map', x) = Occurrences(InitialMap', x)
              /\ from # to
              /\ Contains(ShardsOf(peer_shard_map, from), s)
              /\ Len(peer_shard_map') = Len(peer_shard_map)
              /\ \A i \in DOMAIN peer_shard_map :
                   /\ peer_shard_map'[i][1] = peer_shard_map[i][1]
                   /\ peer_shard_map'[i][2] =
                        IF peer_shard_map[i][1] = from
                        THEN DropOne(peer_shard_map[i][2], s)
                        ELSE IF peer_shard_map[i][1] = to
                        THEN Append(peer_shard_map[i][2], s)
                        ELSE peer_shard_map[i][2]
      ]_vars

\* a shard that its peer held twice has been moved, next to a peer that no
\* move names
C14_Witness ==
    /\ Planning
    /\ rebalance_operations # <<>>
    /\ LET m == rebalance_operations[1]
           held == ShardsOf(InitialMap, m[1])
       IN  Cardinality({j \in DOMAIN held : held[j] = m[3]}) >= 2
    /\ \E i \in DOMAIN peer_shard_map :
         \A j \in DOMAIN rebalance_operations :
            /\ rebalance_operations[j][1] # peer_shard_map[i][1]
            /\ rebalance_operations[j][2] # peer_shard_map[i][1]

\* ------------------------------------------------------------------ C15
\* the loops of lines 55-67 have been left
PlanningOver ==
    Called /\ pc \notin {"for_overfilled", "for_shard", "for_underfilled"}

\* the outer loop moves on to the next overfilled peer and copies the list the
\* peer was passed in with; meanwhile the copy stays and is read front to back
SinglePass ==
    /\ (Called /\ oi' # oi) =>
          /\ oi' = oi + 1
          /\ snapshot' = ShardsOf(InitialMap, overfilled_peers[oi'])
          /\ si' = 0
    /\ (Called /\ oi' = oi) =>
          /\ snapshot' = snapshot
          /\ si' \in {si, si + 1}
    /\ (Called /\ pc # "planned" /\ pc' = "planned") =>
          /\ oi = Len(overfilled_peers)
          /\ si = Len(snapshot)

\* C15: planning visits each overfilled peer once, reading the copy of its
\* list taken when its turn starts; it evaluates the guard at most
\* totalShards x peerCount times, plans at most totalShards moves, and ends.
C15_SinglePassTerminates ==
    /\ [](Called =>
            /\ NoDuplicate(overfilled_peers)
            /\ candidate_checks <= SumLen(InitialMap) * Len(InitialMap)
            /\ Len(rebalance_operations) <= SumLen(InitialMap))
    /\ [][SinglePass]_vars
    /\ <>PlanningOver

\* planning has ended after the turns of two overfilled peers, with a guard
\* evaluation that failed and a move
C15_Witness ==
    /\ pc = "planned"
    /\ Len(overfilled_peers) >= 2
    /\ oi = Len(overfilled_peers)
    /\ rebalance_operations # <<>>
    /\ candidate_checks > Len(rebalance_operations)

\* ------------------------------------------------------------------ C16
\* C16: a move request is issued only in a run whose two reads were answered,
\* with the rebalance flag set, dry-run unset and a non-empty plan; a run
\* without the rebalance flag never calls the planner, plans no move and issues
\* no move request, whatever the dry-run flag.
C16_WritesAreGated ==
    /\ Posts # <<>> =>
          /\ ~ReadFailed
          /\ Len(SelectSeq(http, LAMBDA r : r[1] = "GET")) = 2
          /\ rebalance
          /\ ~dry_run
          /\ rebalance_operations # <<>>
          /\ Len(Posts) <= Len(rebalance_operations)
    /\ ~rebalance =>
          /\ ~Called
          /\ pc \in {"main", "fetch_collections", "parse_local", "parse_remote", "done"}
          /\ rebalance_operations = <<>>
          /\ Posts = <<>>

\* every move of the plan has been requested
C16_Witness ==
    /\ pc = "done"
    /\ rebalance_operations # <<>>
    /\ Len(Posts) = Len(rebalance_operations)

====
